---- MODULE Spec2Model ----
(***************************************************************************)
(* Gear-tooth wear analysis (amit191091/Wear-Image-Process).               *)
(*                                                                         *)
(* The model covers the numeric back end of the two pipelines:             *)
(*   - monotonicity enforcement           (data_utils.py)                  *)
(*   - tabulation and reload              (data_utils.py, data_loader.py)  *)
(*   - wear-depth resolution              (tooth1_analyzer.py,             *)
(*                                         wear_analyzer.py, config.py)    *)
(*   - batch accumulation over filenames  (batch_processor.py,             *)
(*                                         tooth1_analyzer.py)             *)
(*   - tooth segmentation index/ordering  (image_processor.py,             *)
(*                                         tooth1_image_processor.py)      *)
(*                                                                         *)
(* Units.  Wear depths are Python floats in micrometres.  They are kept    *)
(* here as integers in hundredths of a micrometre (38.0 um = 3800), which  *)
(* represents every table value of the program exactly and leaves one      *)
(* digit below the one-decimal rounding of the table writer.  Angles are   *)
(* integers in sevenths of a degree, so that the ideal slot spacing        *)
(* 360/35 degrees is the integer 72.                                       *)
(***************************************************************************)
EXTENDS Integers, Sequences, FiniteSets, TLC

VARIABLES
    pc,             \* position of the scenario being run
    analysis_type,  \* "all_teeth" | "tooth1"
    original,       \* the Result Set as handed to the operation
    results,        \* the Result Set as the operation leaves it
    csv_file,       \* the results CSV on disk
    loaded,         \* what the loader returned from it
    wear_num,       \* the wear case being resolved
    actual_measurements,  \* the ground-truth table the configuration loaded
    features,       \* area_loss of the feature vector, in thousandths
    tooth1_result,  \* the record the single-tooth pipeline resolved, if any
    all_teeth_result,  \* the record the multi-tooth pipeline resolved, if any
    image_files,    \* the image paths of the batch, in processing order
    file_index,     \* number of images the batch loop has gone through
    processed,      \* one entry per loop iteration: file, wear case, outcome
    valid_contours, \* the candidates that passed filtering, in detection order
    indexed_teeth,  \* what Tooth Segmentation returns
    healthy_tooth1, \* the healthy reference contour of the single-tooth run
    worn_teeth,     \* the (index, contour) pairs segmented from a worn image
    best_match,     \* what Tooth Matching returned for them
    target_um_per_px,        \* the caller's target scale, hundredths of um/px
    effective_scale_factor,  \* the factor applied to the loss/diff features
    enforce_runs,   \* times the driver has run monotonicity enforcement
    save_calls      \* times the driver has called save_results_to_csv

-----------------------------------------------------------------------------
(* Bounds of the model *)

MaxRecords == 3
MaxWearCase == 2
MaxInputCase == 37
MaxFiles == 3
MaxCandidates == 37
MaxWornTeeth == 2

-----------------------------------------------------------------------------
(* Generic helpers *)

Max2(a, b) == IF a >= b THEN a ELSE b
Min2(a, b) == IF a <= b THEN a ELSE b

Abs(x) == IF x < 0 THEN 0 - x ELSE x

SetMin(S) == CHOOSE x \in S : \A y \in S : x <= y

Range(s) == {s[i] : i \in DOMAIN s}

\* Python's list.sort / sorted with key=lambda x: x["wear_case"]: a stable
\* sort, records of equal wear case keep their relative order.
RECURSIVE SortByWearCase(_)
SortByWearCase(s) ==
    IF s = <<>> THEN <<>>
    ELSE LET k == SetMin({s[i].wear_case : i \in DOMAIN s})
             IsK(r) == r.wear_case = k
             NotK(r) == r.wear_case # k
         IN SelectSeq(s, IsK) \o SortByWearCase(SelectSeq(s, NotK))

\* The same sort applied to positions of `s` (the program sorts references to
\* the dicts, the model sorts their indices).
RECURSIVE SortIdxByWearCase(_, _)
SortIdxByWearCase(s, idxs) ==
    IF idxs = <<>> THEN <<>>
    ELSE LET k == SetMin({s[idxs[i]].wear_case : i \in DOMAIN idxs})
             IsK(j) == s[j].wear_case = k
             NotK(j) == s[j].wear_case # k
         IN SelectSeq(idxs, IsK) \o SortIdxByWearCase(s, SelectSeq(idxs, NotK))

-----------------------------------------------------------------------------
(* Configuration *)

MAX_THEORETICAL_WEAR == 1500 * 100

-----------------------------------------------------------------------------
(* Monotonicity enforcement, multi-tooth *)

\* teeth_data[tooth_num]: the positions of the tooth's records, in insertion
\* order, then sorted by wear case.
ToothGroup(s, t) ==
    LET OfTooth(j) == s[j].tooth_number = t
    IN SortIdxByWearCase(s, SelectSeq([j \in 1..Len(s) |-> j], OfTooth))

\* Mutant: the else branch forgets max_wear = current_wear.
AllTeethStepNoMaxUpdate(s, j, max_wear) ==
    LET current_wear == s[j].wear_depth_um
    IN IF current_wear < max_wear
       THEN [res |-> [s EXCEPT ![j].wear_depth_um = max_wear], max |-> max_wear]
       ELSE [res |-> s, max |-> max_wear]

\* Mutant: the record below the running maximum is raised 2% above it, as
\* the single-tooth enforcement does.
AllTeethStepWithGrowth(s, j, max_wear) ==
    LET current_wear == s[j].wear_depth_um
        adjusted == (max_wear * 102) \div 100
    IN IF current_wear < max_wear
       THEN [res |-> [s EXCEPT ![j].wear_depth_um = adjusted], max |-> adjusted]
       ELSE [res |-> s, max |-> current_wear]

\* Mutant: the overwritten record is tagged as the single-tooth enforcement
\* tags it.
AllTeethStepTagging(s, j, max_wear) ==
    LET current_wear == s[j].wear_depth_um
    IN IF current_wear < max_wear
       THEN [res |-> [s EXCEPT ![j].wear_depth_um = max_wear,
                               ![j].method = @ \o "_monotonic"],
             max |-> max_wear]
       ELSE [res |-> s, max |-> current_wear]

\* Mutant: max_wear = current_wear runs on both branches, with the depth
\* read before the overwrite.
AllTeethStepMaxFollowsCurrent(s, j, max_wear) ==
    LET current_wear == s[j].wear_depth_um
    IN IF current_wear < max_wear
       THEN [res |-> [s EXCEPT ![j].wear_depth_um = max_wear], max |-> current_wear]
       ELSE [res |-> s, max |-> current_wear]

\* One iteration of the inner loop: the record below the running maximum is
\* overwritten with it, any other record raises the running maximum.
AllTeethStep(s, j, max_wear) ==
    LET current_wear == s[j].wear_depth_um
    IN IF current_wear < max_wear
       THEN [res |-> [s EXCEPT ![j].wear_depth_um = max_wear], max |-> max_wear]
       ELSE [res |-> s, max |-> current_wear]

RECURSIVE WalkTooth(_, _, _, _)
WalkTooth(s, group, k, max_wear) ==
    IF k > Len(group) THEN s
    ELSE LET st == AllTeethStep(s, group[k], max_wear)
         IN WalkTooth(st.res, group, k + 1, st.max)

\* Mutant: max_wear starts at the first depth of the tooth, not at 0.0.
RECURSIVE WalkTeethFromFirst(_, _)
WalkTeethFromFirst(s, teeth) ==
    IF teeth = {} THEN s
    ELSE LET t == SetMin(teeth)
             group == ToothGroup(s, t)
         IN WalkTeethFromFirst(WalkTooth(s, group, 1, s[group[1]].wear_depth_um),
                               teeth \ {t})

RECURSIVE WalkTeeth(_, _)
WalkTeeth(s, teeth) ==
    IF teeth = {} THEN s
    ELSE LET t == SetMin(teeth)
         IN WalkTeeth(WalkTooth(s, ToothGroup(s, t), 1, 0), teeth \ {t})

\* Mutant: the list is returned as it came.
all_teeth_left_as_analysed(s) == s

enforce_monotonicity_for_all_teeth(s) ==
    IF s = <<>> THEN s
    ELSE WalkTeeth(s, {s[i].tooth_number : i \in DOMAIN s})

-----------------------------------------------------------------------------
(* Monotonicity enforcement, single-tooth *)

\* previous_wear * 1.02 on a depth in hundredths, truncated to the unit.
Times102(d) == (d * 102) \div 100

\* Mutant: the cap min(adjusted_wear, MAX_THEORETICAL_WEAR) is left out.
Tooth1AdjustNoCap(previous_wear) == Max2(0, Times102(previous_wear))

\* Mutant: the factor is 0.98.
Tooth1AdjustShrinks(previous_wear) ==
    Max2(0, Min2((previous_wear * 98) \div 100, MAX_THEORETICAL_WEAR))

\* adjusted_wear of a record found below its predecessor.
Tooth1Adjust(previous_wear) ==
    Max2(0, Min2(Times102(previous_wear), MAX_THEORETICAL_WEAR))

\* Mutant: the comparison is turned round, a record above its predecessor
\* is overwritten.
Tooth1StepInverted(s, i) ==
    LET current_wear == Max2(0, s[i].wear_depth_um)
        previous_wear == Max2(0, s[i-1].wear_depth_um)
    IN IF current_wear > previous_wear
       THEN [s EXCEPT ![i].wear_depth_um = Tooth1Adjust(previous_wear),
                      ![i].method = @ \o "_monotonic"]
       ELSE s

\* One iteration of the loop over range(1, len(sorted_results)); i is the
\* 1-based position.  Every record of the pipeline carries "method".
Tooth1Step(s, i) ==
    LET current_wear == Max2(0, s[i].wear_depth_um)
        previous_wear == Max2(0, s[i-1].wear_depth_um)
    IN IF current_wear < previous_wear
       THEN [s EXCEPT ![i].wear_depth_um = Tooth1Adjust(previous_wear),
                      ![i].method = @ \o "_monotonic"]
       ELSE s

RECURSIVE Tooth1Walk(_, _)
Tooth1Walk(s, i) ==
    IF i > Len(s) THEN s ELSE Tooth1Walk(Tooth1Step(s, i), i + 1)

enforce_monotonicity_for_tooth1(s) ==
    IF s = <<>> THEN s
    ELSE Tooth1Walk(SortByWearCase(s), 2)

enforce_monotonicity(s, type) ==
    IF s = <<>> THEN s
    ELSE IF type = "all_teeth" THEN enforce_monotonicity_for_all_teeth(s)
    ELSE IF type = "tooth1" THEN enforce_monotonicity_for_tooth1(s)
    ELSE s

-----------------------------------------------------------------------------
(* Result Sets handed to enforcement *)

WearCases == 1..MaxWearCase
Teeth == 1..2
AllTeethDepths == {-500, 1000, 2000}
Tooth1Depths == {-500, -300, 1000, 149000, 160000}

AllTeethRecords(depths) ==
    [wear_case : WearCases, tooth_number : Teeth,
     wear_depth_um : depths, method : {"single_image_analysis"}]

Tooth1Records(depths) ==
    [wear_case : WearCases, wear_depth_um : depths, method : {"optimized"}]

SeqsUpTo(S, n) == UNION {[1..k -> S] : k \in 0..n}

-----------------------------------------------------------------------------
(* Text of the CSV: numbers are written and read back as decimal text. *)

Digits == <<"0", "1", "2", "3", "4", "5", "6", "7", "8", "9">>

IsDigit(c) == \E d \in 1..10 : Digits[d] = c

DigitVal(c) == (CHOOSE d \in 1..10 : Digits[d] = c) - 1

CharAt(str, i) == SubSeq(str, i, i)

AllDigits(str) == Len(str) > 0 /\ \A i \in 1..Len(str) : IsDigit(CharAt(str, i))

RECURSIVE NatOf(_)
NatOf(str) ==
    IF Len(str) = 0 THEN 0
    ELSE NatOf(SubSeq(str, 1, Len(str) - 1)) * 10 + DigitVal(CharAt(str, Len(str)))

\* Python int(text): [ok |-> FALSE] stands for ValueError.
ParseInt(str) ==
    LET neg == Len(str) > 0 /\ CharAt(str, 1) = "-"
        body == IF neg THEN SubSeq(str, 2, Len(str)) ELSE str
    IN IF AllDigits(body)
       THEN [ok |-> TRUE, val |-> IF neg THEN 0 - NatOf(body) ELSE NatOf(body)]
       ELSE [ok |-> FALSE, val |-> 0]

\* Python float(text) of a decimal with at most two fraction digits, in
\* hundredths; float("") is a ValueError.
ParseFloat(str) ==
    LET neg == Len(str) > 0 /\ CharAt(str, 1) = "-"
        body == IF neg THEN SubSeq(str, 2, Len(str)) ELSE str
        dots == {i \in 1..Len(body) : CharAt(body, i) = "."}
        dot == IF dots = {} THEN Len(body) + 1 ELSE SetMin(dots)
        ip == SubSeq(body, 1, dot - 1)
        fp == SubSeq(body, dot + 1, Len(body))
        frac == IF Len(fp) = 0 THEN 0
                ELSE IF Len(fp) = 1 THEN NatOf(fp) * 10 ELSE NatOf(fp)
        mag == NatOf(ip) * 100 + frac
    IN IF AllDigits(ip) /\ Len(fp) <= 2 /\ (Len(fp) = 0 \/ AllDigits(fp))
       THEN [ok |-> TRUE, val |-> IF neg THEN 0 - mag ELSE mag]
       ELSE [ok |-> FALSE, val |-> 0]

\* DataFrame.round(1) of a depth in hundredths, in tenths: numpy rounds the
\* scaled value half to even.
Round1(h) ==
    LET q == h \div 10
        r == h % 10
    IN IF r < 5 THEN q
       ELSE IF r > 5 THEN q + 1
       ELSE IF q % 2 = 0 THEN q ELSE q + 1

\* to_csv of a float with one decimal, given in tenths.
FormatFloat(t) ==
    LET a == IF t < 0 THEN 0 - t ELSE t
    IN (IF t < 0 THEN "-" ELSE "") \o ToString(a \div 10) \o "." \o ToString(a % 10)

\* str.endswith
EndsWithText(str, suffix) ==
    /\ Len(str) >= Len(suffix)
    /\ SubSeq(str, Len(str) - Len(suffix) + 1, Len(str)) = suffix

\* f'W{col}'
ColumnName(case) == "W" \o ToString(case)

NoFile == [exists |-> FALSE, header |-> <<>>, rows |-> <<>>]

SetMax(S) == CHOOSE x \in S : \A y \in S : x >= y

\* Mutant: the index in descending order.
RECURSIVE Descending(_)
Descending(S) ==
    IF S = {} THEN <<>> ELSE <<SetMax(S)>> \o Descending(S \ {SetMax(S)})

\* The set S as the ascending sequence pandas' sorted index gives.
RECURSIVE Ascending(_)
Ascending(S) ==
    IF S = {} THEN <<>> ELSE <<SetMin(S)>> \o Ascending(S \ {SetMin(S)})

-----------------------------------------------------------------------------
(* Tabulation: save_table_format *)

HasDuplicateKey(s) ==
    \E i, j \in DOMAIN s :
        /\ i < j
        /\ s[i].tooth_number = s[j].tooth_number
        /\ s[i].wear_case = s[j].wear_case

\* A cell of the pivot: the depth of the record of (tooth, case) rounded to
\* one decimal, or the empty text to_csv writes for NaN.
PivotCell(s, t, c) ==
    LET hits == {i \in DOMAIN s : s[i].tooth_number = t /\ s[i].wear_case = c}
    IN IF hits = {} THEN ""
       ELSE FormatFloat(Round1(s[CHOOSE i \in hits : TRUE].wear_depth_um))

\* The all_teeth branch.  df.pivot raises ValueError on a duplicate
\* (tooth_number, wear_case); the except clause then returns None and no file
\* is written.
AllTeethTable(s, old) ==
    IF HasDuplicateKey(s) THEN old
    ELSE LET teeth == Ascending({s[i].tooth_number : i \in DOMAIN s})
             cases == Ascending({s[i].wear_case : i \in DOMAIN s})
         IN [exists |-> TRUE,
             header |-> <<"Tooth">> \o [k \in DOMAIN cases |-> ColumnName(cases[k])],
             rows |-> [r \in DOMAIN teeth |->
                         <<ToString(teeth[r])>> \o
                         [k \in DOMAIN cases |-> PivotCell(s, teeth[r], cases[k])]]]

\* next(r['wear_depth_um'] for r in results if r['wear_case'] == case)
FirstOfCase(s, case) ==
    s[SetMin({i \in DOMAIN s : s[i].wear_case = case})]

\* The single-tooth branch: one column per element of the sorted list of wear
\* cases (a list, so a repeated wear case gives a repeated column).
Tooth1Table(s) ==
    LET wear_cases == SortByWearCase(s)
    IN [exists |-> TRUE,
        header |-> [k \in DOMAIN wear_cases |-> ColumnName(wear_cases[k].wear_case)],
        rows |-> << [k \in DOMAIN wear_cases |->
                       FormatFloat(Round1(FirstOfCase(s, wear_cases[k].wear_case).wear_depth_um))] >>]

save_table_format(s, type, old) ==
    IF type = "all_teeth" THEN AllTeethTable(s, old) ELSE Tooth1Table(s)

\* save_results_to_csv: nothing is written for an empty Result Set.
save_results_to_csv(s, type, old) ==
    IF s = <<>> THEN old ELSE save_table_format(s, type, old)

-----------------------------------------------------------------------------
(* Reload: csv.DictReader and the two loaders *)

\* The dict DictReader yields for a row: a repeated column name keeps the
\* last value.
RowDict(header, row) ==
    [name \in Range(header) |->
        row[CHOOSE i \in DOMAIN header :
                /\ header[i] = name
                /\ \A j \in DOMAIN header : header[j] = name => j <= i]]

IsWColumn(name) == Len(name) >= 1 /\ CharAt(name, 1) = "W"

WCase(name) == ParseInt(SubSeq(name, 2, Len(name)))

WColumns(header) == {name \in Range(header) : IsWColumn(name)}

\* A row of the table format parses if every W column has an integer name
\* and a float cell.
RowParses(header, row) ==
    \A name \in WColumns(header) :
        WCase(name).ok /\ ParseFloat(RowDict(header, row)[name]).ok

\* load_all_teeth_data: {} for a missing file and for any exception.
load_all_teeth_data(file) ==
    IF ~file.exists THEN <<>>
    ELSE IF Len(file.header) > 1 /\ file.header[1] = "Tooth"
    THEN IF \A r \in DOMAIN file.rows :
                /\ ParseInt(file.rows[r][1]).ok
                /\ RowParses(file.header, file.rows[r])
         THEN LET cols == WColumns(file.header)
                  ColOf(c) == CHOOSE name \in cols : WCase(name).val = c
                  RowOf(t) == CHOOSE r \in DOMAIN file.rows :
                                 /\ ParseInt(file.rows[r][1]).val = t
                                 /\ \A q \in DOMAIN file.rows :
                                       ParseInt(file.rows[q][1]).val = t => q <= r
              IN [c \in {WCase(name).val : name \in cols} |->
                    [t \in {ParseInt(file.rows[r][1]).val : r \in DOMAIN file.rows} |->
                        ParseFloat(RowDict(file.header, file.rows[RowOf(t)])[ColOf(c)]).val]]
         ELSE <<>>
    ELSE <<>>   \* long-format fallback: row['wear_case'] is a KeyError

\* load_single_tooth_data: {} for a missing file and for any exception.
load_single_tooth_data(file) ==
    IF ~file.exists THEN <<>>
    ELSE IF Len(file.header) > 1 /\ file.header[1] # "wear_case"
    THEN IF RowParses(file.header, file.rows[1])
         THEN LET cols == WColumns(file.header)
                  ColOf(c) == CHOOSE name \in cols : WCase(name).val = c
              IN [c \in {WCase(name).val : name \in cols} |->
                    ParseFloat(RowDict(file.header, file.rows[1])[ColOf(c)]).val]
         ELSE <<>>
    ELSE <<>>   \* long-format fallback: row['wear_case'] is a KeyError

load_data(file, type) ==
    IF type = "all_teeth" THEN load_all_teeth_data(file)
    ELSE load_single_tooth_data(file)

-----------------------------------------------------------------------------
(* Filenames *)

UpperCase == "ABCDEFGHIJKLMNOPQRSTUVWXYZ"
LowerCase == "abcdefghijklmnopqrstuvwxyz"

LowerChar(c) ==
    IF \E k \in 1..26 : CharAt(UpperCase, k) = c
    THEN CharAt(LowerCase, CHOOSE k \in 1..26 : CharAt(UpperCase, k) = c)
    ELSE c

\* str.lower()
RECURSIVE Lower(_)
Lower(str) ==
    IF Len(str) = 0 THEN ""
    ELSE LowerChar(CharAt(str, 1)) \o Lower(SubSeq(str, 2, Len(str)))

StartsWithAt(str, i, prefix) ==
    /\ i + Len(prefix) - 1 <= Len(str)
    /\ SubSeq(str, i, i + Len(prefix) - 1) = prefix

\* sub in str
Contains(str, sub) == \E i \in 1..Len(str) : StartsWithAt(str, i, sub)

\* The end of the run of digits starting at position i (\d+ is greedy).
RECURSIVE DigitsEnd(_, _)
DigitsEnd(str, i) ==
    IF i + 1 <= Len(str) /\ IsDigit(CharAt(str, i + 1))
    THEN DigitsEnd(str, i + 1) ELSE i

\* Positions where prefix(\d+) matches.
MatchStarts(str, prefix) ==
    {i \in 1..Len(str) :
        /\ StartsWithAt(str, i, prefix)
        /\ i + Len(prefix) <= Len(str)
        /\ IsDigit(CharAt(str, i + Len(prefix)))}

\* re.search(prefix(\d+), str).group(1) as an integer, at the leftmost match.
MatchNumber(str, prefix) ==
    LET i == SetMin(MatchStarts(str, prefix)) + Len(prefix)
    IN NatOf(SubSeq(str, i, DigitsEnd(str, i)))

\* Mutant: the pattern w(\d+) is tried before wear(\d+).
extract_wear_case_w_first(filename, default_case) ==
    LET lower == Lower(filename)
    IN IF Contains(lower, "healthy") THEN 0 - 1
       ELSE IF MatchStarts(lower, "w") # {} THEN MatchNumber(lower, "w")
       ELSE IF MatchStarts(lower, "wear") # {} THEN MatchNumber(lower, "wear")
       ELSE IF MatchStarts(lower, "") # {} THEN MatchNumber(lower, "")
       ELSE default_case

extract_wear_case_from_filename(filename, default_case) ==
    LET lower == Lower(filename)
    IN IF Contains(lower, "healthy") THEN 0 - 1
       ELSE IF MatchStarts(lower, "wear") # {} THEN MatchNumber(lower, "wear")
       ELSE IF MatchStarts(lower, "w") # {} THEN MatchNumber(lower, "w")
       ELSE IF MatchStarts(lower, "") # {} THEN MatchNumber(lower, "")
       ELSE default_case

\* extract_wear_number of data_utils: int(basename.split(' ')[0][1:]);
\* [ok |-> FALSE] stands for ValueError.
extract_wear_number(filename) ==
    LET spaces == {i \in 1..Len(filename) : CharAt(filename, i) = " "}
        stop == IF spaces = {} THEN Len(filename) ELSE SetMin(spaces) - 1
    IN ParseInt(SubSeq(filename, 2, stop))

\* fnmatch of '*' + ext
HasExtension(name, ext) == EndsWithText(name, ext)

\* list.sort(key=...): a stable sort by an integer key, the key given as a
\* function on the elements.
RECURSIVE SortBy(_, _)
SortBy(names, key) ==
    IF names = <<>> THEN <<>>
    ELSE LET k == SetMin({key[names[i]] : i \in DOMAIN names})
             IsK(n) == key[n] = k
             NotK(n) == key[n] # k
         IN SelectSeq(names, IsK) \o SortBy(SelectSeq(names, NotK), key)

image_extensions == <<".jpg", ".jpeg", ".png", ".bmp", ".tiff">>

\* The glob loop over image_extensions on a directory listing, then
\* image_files.sort(key=get_wear_case_for_sorting).
RECURSIVE GlobImages(_, _)
GlobImages(listing, k) ==
    IF k > Len(image_extensions) THEN <<>>
    ELSE LET Matches(n) == HasExtension(n, image_extensions[k])
         IN SelectSeq(listing, Matches) \o GlobImages(listing, k + 1)

\* get_wear_case_for_sorting
SortKey999(name) == extract_wear_case_from_filename(name, 999)

AllTeethImageFiles(listing) ==
    LET image_files_found == GlobImages(listing, 1)
    IN SortBy(image_files_found,
                   [n \in Range(image_files_found) |-> SortKey999(n)])

\* glob("W*.jpg") on a directory listing.
GlobWorn(listing) ==
    LET Matches(n) == StartsWithAt(n, 1, "W") /\ HasExtension(n, ".jpg")
    IN SelectSeq(listing, Matches)

\* wear_files.sort(key=extract_wear_number); the sort raises if a name has
\* no integer after its first letter.
WornFilesSortable(files) == \A i \in DOMAIN files : extract_wear_number(files[i]).ok

Tooth1WearFiles(files) ==
    SortBy(files, [n \in Range(files) |-> extract_wear_number(n).val])

-----------------------------------------------------------------------------
(* Lookup tables of Wear-Depth Resolution (depths in hundredths of a um) *)

\* tooth1_config.manual_adjustments
manual_adjustments ==
    (1 :> 3800) @@ (2 :> 7700) @@ (4 :> 15200) @@ (5 :> 16600) @@ (6 :> 18500)

OptimizedFromW7 ==
    <<
       25870, 27160, 28520, 29950, 31440, 33010, 34670, 36400, 38220, 40130,
       42140, 44240, 46460, 48780, 51220, 53780, 56470, 59290, 62250, 65370,
       68640, 72070, 75670, 79450, 83430, 87600, 91980, 96580, 100000 >>

\* tooth1_config.optimized_results_w7_plus, keys 7..35
optimized_results_w7_plus == [k \in 7..35 |-> OptimizedFromW7[k - 6]]

\* The hardcoded fallback of load_ground_truth_data, keys 1..35
HardcodedGroundTruth ==
    <<
       4000, 8100, 11500, 15900, 17500, 19500, 22700, 25600, 27600, 29400,
       30500, 32300, 34400, 37800, 40000, 41700, 43600, 45000, 46600, 48800,
       51000, 52400, 55700, 57900, 60800, 63700, 68400, 72000, 74400, 76900,
       79700, 82500, 85300, 89000, 93200 >>

\* A ground_truth_measurements.csv beside config.py replaces the hardcoded
\* table by its own rows: dict(zip(wear_case, actual_wear_depth_um)).  The
\* file modelled repeats the hardcoded measurements and has one more row,
\* wear case 36 at 960.0 um.
GroundTruthCsv == [k \in 1..36 |-> IF k = 36 THEN 96000 ELSE HardcodedGroundTruth[k]]

\* load_ground_truth_data: the CSV when it exists and loads, else the
\* hardcoded table.
load_ground_truth_data(csv_exists) ==
    IF csv_exists THEN GroundTruthCsv ELSE HardcodedGroundTruth

\* tooth1_ground_truth of predict_wear_depth_from_features, keys 1..35
tooth1_ground_truth ==
    <<
       3800, 7700, 11500, 15200, 16600, 18500, 25870, 27160, 28520, 29950,
       31440, 33010, 34670, 36400, 38220, 40130, 42140, 44240, 46460, 48780,
       51220, 53780, 56470, 59290, 62250, 65370, 68640, 72070, 75670, 79450,
       83430, 87600, 91980, 96580, 100000 >>

EXPECTED_TOOTH_COUNT == 35

-----------------------------------------------------------------------------
(* Wear-Depth Resolution, single-tooth pipeline *)

\* Mutant: the ground-truth table is consulted before the overrides.
Tooth1LookupGroundTruthFirst(case, area_loss, actual) ==
    IF case \in DOMAIN actual
    THEN [depth |-> actual[case], method |-> "actual_measurement"]
    ELSE IF case \in DOMAIN manual_adjustments
    THEN [depth |-> manual_adjustments[case], method |-> "manual_adjustment"]
    ELSE IF case \in DOMAIN optimized_results_w7_plus
    THEN [depth |-> optimized_results_w7_plus[case], method |-> "optimized"]
    ELSE [depth |-> area_loss * 100, method |-> "feature_based"]

\* The if/elif chain of analyze_tooth1_wear_depth.  area_loss is in
\* thousandths, so area_loss * 1000 um is area_loss * 100 hundredths.
Tooth1Lookup(case, area_loss, actual) ==
    IF case \in DOMAIN manual_adjustments
    THEN [depth |-> manual_adjustments[case], method |-> "manual_adjustment"]
    ELSE IF case \in DOMAIN optimized_results_w7_plus
    THEN [depth |-> optimized_results_w7_plus[case], method |-> "optimized"]
    ELSE IF case \in DOMAIN actual
    THEN [depth |-> actual[case], method |-> "actual_measurement"]
    ELSE [depth |-> area_loss * 100, method |-> "feature_based"]

\* Mutant: the clamp of the resolved depth is left out.
Tooth1ClampMissing(predicted_depth) == predicted_depth

\* max(0, min(predicted_depth, MAX_THEORETICAL_WEAR))
Tooth1Clamp(predicted_depth) ==
    Max2(0, Min2(predicted_depth, MAX_THEORETICAL_WEAR))

\* The record analyze_tooth1_wear_depth appends for a matched worn tooth.
Tooth1Resolve(case, area_loss, actual) ==
    LET pick == Tooth1Lookup(case, area_loss, actual)
    IN [wear_case |-> case,
        wear_depth_um |-> Tooth1Clamp(pick.depth),
        method |-> pick.method]

-----------------------------------------------------------------------------
(* Wear-Depth Resolution, multi-tooth pipeline *)

\* base_depth * tooth_variation with the factor in percent, truncated to the
\* unit, then max(0, min(predicted_depth, MAX_THEORETICAL_WEAR)).
OtherToothDepth(base_depth, tooth_variation) ==
    Max2(0, Min2((base_depth * tooth_variation) \div 100, MAX_THEORETICAL_WEAR))

\* wear_case * 25.0 * (1.0 + (tooth_number - 1) * 0.02), capped.
FallbackDepth(case, tooth) ==
    Min2(case * 25 * (100 + (tooth - 1) * 2), MAX_THEORETICAL_WEAR)

\* predict_wear_depth_from_features; the feature vector is not read.
predict_wear_depth_from_features(case, tooth, tooth_variation) ==
    IF case \in DOMAIN tooth1_ground_truth
    THEN IF tooth = 1 THEN tooth1_ground_truth[case]
         ELSE OtherToothDepth(tooth1_ground_truth[case], tooth_variation)
    ELSE FallbackDepth(case, tooth)

\* The record analyze_single_gear_image appends for a tooth.
AllTeethResolve(case, tooth, tooth_variation) ==
    [wear_case |-> case, tooth_number |-> tooth,
     wear_depth_um |-> predict_wear_depth_from_features(case, tooth, tooth_variation),
     method |-> "single_image_analysis"]

\* The record of the except clause.
ErrorRecord(case, tooth) ==
    [wear_case |-> case, tooth_number |-> tooth,
     wear_depth_um |-> 0, method |-> "error"]

-----------------------------------------------------------------------------
(* Specification of enforcement: any Result Set, enforced once. *)

vars == <<pc, analysis_type, original, results, csv_file, loaded,
          wear_num, actual_measurements, features, tooth1_result, all_teeth_result,
          image_files, file_index, processed, valid_contours, indexed_teeth,
          healthy_tooth1, worn_teeth, best_match, target_um_per_px,
          effective_scale_factor, enforce_runs, save_calls>>

dataVars == <<analysis_type, original, results>>
fileVars == <<csv_file, loaded>>
resolveVars == <<wear_num, actual_measurements, features, tooth1_result, all_teeth_result>>
batchVars == <<image_files, file_index, processed>>
segVars == <<valid_contours, indexed_teeth>>
matchVars == <<healthy_tooth1, worn_teeth, best_match, target_um_per_px,
               effective_scale_factor>>
driverVars == <<enforce_runs, save_calls>>

\* The parts of the state a scenario does not use.
IdleData == analysis_type = "none" /\ original = <<>> /\ results = <<>>
IdleFile == csv_file = NoFile /\ loaded = <<>>
IdleResolve ==
    /\ wear_num = 0
    /\ actual_measurements = <<>>
    /\ features = 0
    /\ tooth1_result = <<>>
    /\ all_teeth_result = <<>>
IdleBatch == image_files = <<>> /\ file_index = 0 /\ processed = <<>>
IdleSeg == valid_contours = <<>> /\ indexed_teeth = <<>>
IdleDriver == enforce_runs = 0 /\ save_calls = 0
IdleMatch ==
    /\ healthy_tooth1 = <<>>
    /\ worn_teeth = <<>>
    /\ best_match = <<>>
    /\ target_um_per_px = 0
    /\ effective_scale_factor = 0

InitMono ==
    /\ pc = "start"
    /\ \/ /\ analysis_type = "all_teeth"
          /\ original \in SeqsUpTo(AllTeethRecords(AllTeethDepths), MaxRecords)
       \/ /\ analysis_type = "tooth1"
          /\ original \in SeqsUpTo(Tooth1Records(Tooth1Depths), MaxRecords)
    /\ results = original
    /\ IdleFile
    /\ IdleResolve
    /\ IdleBatch
    /\ IdleSeg
    /\ IdleMatch
    /\ IdleDriver

Enforce ==
    /\ pc = "start"
    /\ results' = enforce_monotonicity(results, analysis_type)
    /\ pc' = "enforced"
    /\ UNCHANGED <<analysis_type, original, fileVars, resolveVars, batchVars, segVars, matchVars, driverVars>>

NextMono == Enforce

SpecMono == InitMono /\ [][NextMono]_vars

-----------------------------------------------------------------------------
(* Specification of the table round trip: any Result Set, written by       *)
(* save_results_to_csv into an empty directory and read back by the loader *)
(* of the same analysis type.                                              *)

TableDepths == {5, 3825, 3835}

InitTable ==
    /\ pc = "start"
    /\ \/ /\ analysis_type = "all_teeth"
          /\ original \in SeqsUpTo(AllTeethRecords(TableDepths), MaxRecords)
       \/ /\ analysis_type = "tooth1"
          /\ original \in SeqsUpTo(Tooth1Records(TableDepths), MaxRecords)
    /\ results = original
    /\ IdleFile
    /\ IdleResolve
    /\ IdleBatch
    /\ IdleSeg
    /\ IdleMatch
    /\ IdleDriver

Save ==
    /\ pc = "start"
    /\ csv_file' = save_results_to_csv(results, analysis_type, csv_file)
    /\ pc' = "saved"
    /\ UNCHANGED <<dataVars, loaded, resolveVars, batchVars, segVars, matchVars, driverVars>>

Load ==
    /\ pc = "saved"
    /\ loaded' = load_data(csv_file, analysis_type)
    /\ pc' = "loaded"
    /\ UNCHANGED <<dataVars, csv_file, resolveVars, batchVars, segVars, matchVars, driverVars>>

NextTable == Save \/ Load

SpecTable == InitTable /\ [][NextTable]_vars

-----------------------------------------------------------------------------
(* Specification of Wear-Depth Resolution: one wear case, resolved by the  *)
(* single-tooth pipeline and, for any tooth, by the multi-tooth pipeline.  *)

\* Wear cases a filename yields: any natural number.
InputCases == (0..MaxInputCase) \cup {60}

\* area_loss after scaling, in thousandths: the worn contour may be larger
\* than the healthy one (negative) and the scale factor is up to 10.
AreaLossValues == {-2000, 0, 250, 1500, 9000}

\* np.random.normal(1.0, 0.05), in percent.
ToothVariations == {-100, 95, 100, 105, 200}

InitResolve ==
    /\ pc = "resolve"
    /\ wear_num \in InputCases
    /\ \E csv_exists \in BOOLEAN :
          actual_measurements = load_ground_truth_data(csv_exists)
    /\ features = 0
    /\ tooth1_result = <<>>
    /\ all_teeth_result = <<>>
    /\ IdleData
    /\ IdleFile
    /\ IdleBatch
    /\ IdleSeg
    /\ IdleMatch
    /\ IdleDriver

\* analyze_tooth1_wear_depth, lines 86-112, for a matched worn tooth.
ResolveTooth1 ==
    /\ pc = "resolve"
    /\ tooth1_result = <<>>
    /\ \E area_loss \in AreaLossValues :
          /\ features' = area_loss
          /\ tooth1_result' = <<Tooth1Resolve(wear_num, area_loss, actual_measurements)>>
    /\ UNCHANGED <<pc, dataVars, fileVars, wear_num, actual_measurements, all_teeth_result, batchVars, segVars, matchVars, driverVars>>

\* analyze_single_gear_image, the try block for one tooth.
ResolveAllTeeth ==
    /\ pc = "resolve"
    /\ all_teeth_result = <<>>
    /\ \E tooth \in 1..EXPECTED_TOOTH_COUNT, tooth_variation \in ToothVariations :
          all_teeth_result' = <<AllTeethResolve(wear_num, tooth, tooth_variation)>>
    /\ UNCHANGED <<pc, dataVars, fileVars, wear_num, actual_measurements, features, tooth1_result, batchVars, segVars, matchVars, driverVars>>

\* analyze_single_gear_image, the except clause for one tooth.
ResolveError ==
    /\ pc = "resolve"
    /\ all_teeth_result = <<>>
    /\ \E tooth \in 1..EXPECTED_TOOTH_COUNT :
          all_teeth_result' = <<ErrorRecord(wear_num, tooth)>>
    /\ UNCHANGED <<pc, dataVars, fileVars, wear_num, actual_measurements, features, tooth1_result, batchVars, segVars, matchVars, driverVars>>

NextResolve == ResolveTooth1 \/ ResolveAllTeeth \/ ResolveError

SpecResolve == InitResolve /\ [][NextResolve]_vars

-----------------------------------------------------------------------------
(* Tooth Segmentation: angular ordering, reduction to the expected count,   *)
(* indexing. Angles are in sevenths of a degree, so that the ideal spacing  *)
(* 360/35 is the integer 72. A candidate is [angle, contour, area], the     *)
(* contour standing for its position in detection order.                    *)

FullTurn == 360 * 7

\* teeth_with_angles.sort(key=lambda x: x[0])
SortByAngle(teeth) == SortBy(teeth, [t \in Range(teeth) |-> t.angle])

\* teeth_with_angles.sort(key=lambda x: x[2], reverse=True)
SortByAreaDescending(teeth) == SortBy(teeth, [t \in Range(teeth) |-> 0 - t.area])

Take(s, n) == SubSeq(s, 1, Min2(n, Len(s)))

KeepLargestUnsorted(teeth) == Take(SortByAreaDescending(teeth), EXPECTED_TOOTH_COUNT)

\* Policy (a), image_processor: the 35 largest, re-sorted by angle.
KeepLargest(teeth) ==
    SortByAngle(Take(SortByAreaDescending(teeth), EXPECTED_TOOTH_COUNT))

\* min(teeth_with_angles, key=lambda x: abs(x[0] - ideal_angle)): the first
\* of the closest.
Closest(teeth, ideal_angle) ==
    LET Dist(i) == IF teeth[i].angle >= ideal_angle
                   THEN teeth[i].angle - ideal_angle
                   ELSE ideal_angle - teeth[i].angle
        best == SetMin({Dist(i) : i \in DOMAIN teeth})
    IN teeth[SetMin({i \in DOMAIN teeth : Dist(i) = best})]

ideal_spacing == FullTurn \div EXPECTED_TOOTH_COUNT

\* Policy (b), tooth1_image_processor: for each ideal slot, the closest
\* candidate.
SelectByIdealSlot(teeth) ==
    [i \in 1..EXPECTED_TOOTH_COUNT |-> Closest(teeth, (i - 1) * ideal_spacing)]

\* enumerate(teeth_with_angles), tooth_number = i + 1
IndexTeeth(teeth) ==
    [i \in DOMAIN teeth |-> [tooth_number |-> i, contour |-> teeth[i].contour]]

\* extract_teeth_from_gear_image, from the candidates that passed filtering.
extract_teeth_from_gear_image(contours) ==
    LET teeth_with_angles == SortByAngle(contours)
    IN IF Len(contours) = 0 THEN <<>>
       ELSE IF Len(teeth_with_angles) > EXPECTED_TOOTH_COUNT
       THEN IndexTeeth(KeepLargest(teeth_with_angles))
       ELSE IndexTeeth(teeth_with_angles)

\* extract_teeth_contours_improved, from the candidates that passed filtering.
extract_teeth_contours_improved(contours) ==
    LET teeth_with_angles == SortByAngle(contours)
    IN IF Len(contours) = 0 THEN <<>>
       ELSE IF Len(teeth_with_angles) > EXPECTED_TOOTH_COUNT
       THEN IndexTeeth(SelectByIdealSlot(teeth_with_angles))
       ELSE IndexTeeth(teeth_with_angles)

-----------------------------------------------------------------------------
(* Specification of Tooth Segmentation on one image *)

\* Images: c candidates, the j-th detected at angle offset + j * stride
\* (modulo a full turn) with an area that cycles with j.
CandidateCounts == 0..MaxCandidates
AngleOffsets == {0, 36, 100}
AngleStrides == {0, 36, 67, 72, 1000}
AreaCycles == {0, 3}

Candidates(c, offset, stride, cycle) ==
    [j \in 1..c |-> [angle |-> (offset + j * stride) % FullTurn,
                     contour |-> j,
                     area |-> 50 + ((j * cycle) % 7) * 10]]

InitSeg ==
    /\ pc = "image"
    /\ analysis_type \in {"all_teeth", "tooth1"}
    /\ \E c \in CandidateCounts, offset \in AngleOffsets,
          stride \in AngleStrides, cycle \in AreaCycles :
            valid_contours = Candidates(c, offset, stride, cycle)
    /\ indexed_teeth = <<>>
    /\ original = <<>>
    /\ results = <<>>
    /\ IdleFile
    /\ IdleResolve
    /\ IdleBatch
    /\ IdleMatch
    /\ IdleDriver

SegmentGearImage ==
    /\ pc = "image"
    /\ analysis_type = "all_teeth"
    /\ indexed_teeth' = extract_teeth_from_gear_image(valid_contours)
    /\ pc' = "segmented"
    /\ UNCHANGED <<analysis_type, original, results, fileVars, resolveVars,
                   batchVars, valid_contours, matchVars, driverVars>>

SegmentTooth1Image ==
    /\ pc = "image"
    /\ analysis_type = "tooth1"
    /\ indexed_teeth' = extract_teeth_contours_improved(valid_contours)
    /\ pc' = "segmented"
    /\ UNCHANGED <<analysis_type, original, results, fileVars, resolveVars,
                   batchVars, valid_contours, matchVars, driverVars>>

NextSeg == SegmentGearImage \/ SegmentTooth1Image

SpecSeg == InitSeg /\ [][NextSeg]_vars

-----------------------------------------------------------------------------
(* Tooth Matching and feature extraction of the single-tooth pipeline.  A   *)
(* contour is [area, perimeter, distance]: its pixel area, its arc length   *)
(* and the distance of its centroid from the centroid of the healthy tooth. *)
(* Scale factors are in hundredths of um/pixel.                             *)

max_distance_threshold == 300

\* 20 <= worn_area <= 5000
PassesAreaGate(contour) == contour.area >= 20 /\ contour.area <= 5000

\* Mutant: the distance gate is left out.
DistanceGateMissing(contour) == TRUE

\* Mutant: a candidate exactly at the threshold is skipped too.
DistanceGateStrict(contour) == contour.distance < max_distance_threshold

\* not (centroid_distance > max_distance_threshold)
PassesDistanceGate(contour) == contour.distance <= max_distance_threshold

\* Mutant: the perimeter term is left out of the score.
MatchScoreNoPerimeter(healthy, worn) ==
    (2000 * worn.distance) \div max_distance_threshold
    + (5000 * Abs(worn.area - healthy.area)) \div Max2(healthy.area, 1)

\* score = 0.2 * distance_norm + 0.5 * area_diff + 0.3 * perimeter_diff, in
\* ten-thousandths.
MatchScore(healthy, worn) ==
    (2000 * worn.distance) \div max_distance_threshold
    + (5000 * Abs(worn.area - healthy.area)) \div Max2(healthy.area, 1)
    + (3000 * Abs(worn.perimeter - healthy.perimeter)) \div Max2(healthy.perimeter, 1)

\* What the matching returns when it returns no match: (None, None) for an
\* empty list and None when no candidate passes the gates; the caller
\* treats both alike.
NoMatch == <<>>

\* find_most_similar_tooth_contour_early_wear: the first candidate of the
\* lowest score among those passing both gates (score < best_score keeps
\* the earlier of two equal scores).
find_most_similar_tooth_contour_early_wear(healthy, worn_contours) ==
    LET gated == {i \in DOMAIN worn_contours :
                     /\ PassesAreaGate(worn_contours[i].contour)
                     /\ PassesDistanceGate(worn_contours[i].contour)}
        Score(i) == MatchScore(healthy, worn_contours[i].contour)
    IN IF worn_contours = <<>> \/ gated = {} THEN NoMatch
       ELSE LET best_score == SetMin({Score(i) : i \in gated})
            IN <<worn_contours[SetMin({i \in gated : Score(i) = best_score})]>>

\* Floor of the square root, for the x below 1001 * 1001 that the branch
\* between the two clamps produces.
ISqrt(x) == CHOOSE r \in 0..1000 : r * r <= x /\ (r + 1) * (r + 1) > x

\* STANDARD_TOOTH_THICKNESS * STANDARD_TOOTH_HEIGHT = (pi * 3 / 2) * 6.75
\* mm2, in ten-thousandths.
expected_tooth_area_mm2 == 318086

\* The areas at which sqrt(expected / area) * 1000 * 0.8 reaches 10.0 and
\* 4.0 um/pixel: 0.64 * expected / 100 and 0.64 * expected / 16, in mm2
\* per (um/pixel)^2, i.e. pixels.
AreaOfScale10 == (64 * expected_tooth_area_mm2) \div 100
AreaOfScale4 == (4 * expected_tooth_area_mm2)

\* estimate_scale_factor_from_gear, in hundredths of um/pixel.
estimate_scale_factor_from_gear(healthy_contour_area) ==
    IF healthy_contour_area > 0
    THEN IF healthy_contour_area <= AreaOfScale10 THEN 1000
         ELSE IF healthy_contour_area >= AreaOfScale4 THEN 400
         ELSE Max2(400, Min2(ISqrt(((64 * expected_tooth_area_mm2 * 100)
                                      \div healthy_contour_area) * 100), 1000))
    ELSE 600

\* effective_scale_factor = target_um_per_px * 0.3 + estimated * 0.7
EffectiveScale(target, healthy_area) ==
    (target * 3 + estimate_scale_factor_from_gear(healthy_area) * 7) \div 10

\* features['area_loss'] of extract_early_wear_features after the loop that
\* multiplies the loss and diff features by the effective scale factor, in
\* thousandths (the factor enters in tenths of um/pixel).
AreaLossFeature(healthy, worn, target) ==
    ((((healthy.area - worn.area) * 1000) \div Max2(healthy.area, 1))
        * (EffectiveScale(target, healthy.area) \div 10)) \div 10

-----------------------------------------------------------------------------
(* Specification of the single-tooth analysis of one worn image: matching, *)
(* feature extraction, resolution.                                         *)

Contour(a, p, d) == [area |-> a, perimeter |-> p, distance |-> d]

\* healthy_teeth[0][1]
HealthyContours ==
    {Contour(a, p, 0) : a \in {0, 100, 6000, 250000}, p \in {40, 50}}

\* Contours a worn image may hold: the healthy shape itself, the same with
\* another perimeter, noisier ones, and ones outside the gates.
WornContours ==
    {Contour(100, 40, 0), Contour(100, 50, 0), Contour(98, 50, 3),
     Contour(90, 40, 30), Contour(100, 40, 300), Contour(100, 40, 301),
     Contour(10, 40, 0), Contour(6000, 40, 0)}

\* worn_teeth as the segmentation indexes them: (i + 1, contour).
WornTeethLists ==
    {[i \in DOMAIN l |-> [idx |-> i, contour |-> l[i]]] :
        l \in SeqsUpTo(WornContours, MaxWornTeeth)}

\* Target scales a caller may pass, in hundredths of um/pixel; 6.0 is the
\* default.
TargetScales == {100, 600, 3000}
DefaultTargetScale == 600

MatchCases == {1, 40}

InitMatch ==
    /\ pc = "worn_image"
    /\ analysis_type = "tooth1"
    /\ wear_num \in MatchCases
    /\ actual_measurements = load_ground_truth_data(FALSE)
    /\ healthy_tooth1 \in HealthyContours
    /\ worn_teeth \in WornTeethLists
    /\ target_um_per_px \in TargetScales
    /\ best_match = NoMatch
    /\ effective_scale_factor = 0
    /\ features = 0
    /\ original = <<>>
    /\ results = <<>>
    /\ tooth1_result = <<>>
    /\ all_teeth_result = <<>>
    /\ IdleFile
    /\ IdleBatch
    /\ IdleSeg
    /\ IdleDriver

\* The body of the loop of analyze_tooth1_wear_depth for a worn image that
\* loaded: no teeth -> continue; no match -> nothing appended; else the
\* features (default target scale) and the resolved record.
AnalyzeWornImage ==
    /\ pc = "worn_image"
    /\ pc' = "next_image"
    /\ IF worn_teeth = <<>>
       THEN UNCHANGED <<best_match, features, effective_scale_factor, results>>
       ELSE LET match == find_most_similar_tooth_contour_early_wear(healthy_tooth1,
                                                                    worn_teeth)
            IN /\ best_match' = match
               /\ IF match = NoMatch
                  THEN UNCHANGED <<features, effective_scale_factor, results>>
                  ELSE LET area_loss == AreaLossFeature(healthy_tooth1, match[1].contour,
                                                        DefaultTargetScale)
                       IN /\ features' = area_loss
                          /\ effective_scale_factor' =
                                EffectiveScale(DefaultTargetScale, healthy_tooth1.area)
                          /\ results' = Append(results,
                                               Tooth1Resolve(wear_num, area_loss,
                                                             actual_measurements))
    /\ UNCHANGED <<analysis_type, original, fileVars, wear_num, actual_measurements,
                   tooth1_result, all_teeth_result, batchVars, segVars,
                   healthy_tooth1, worn_teeth, target_um_per_px, driverVars>>

\* extract_early_wear_features called on the healthy tooth and the first
\* worn tooth with the caller's target scale.
ExtractFeatures ==
    /\ pc = "worn_image"
    /\ worn_teeth # <<>>
    /\ pc' = "features"
    /\ features' = AreaLossFeature(healthy_tooth1, worn_teeth[1].contour,
                                  target_um_per_px)
    /\ effective_scale_factor' = EffectiveScale(target_um_per_px, healthy_tooth1.area)
    /\ UNCHANGED <<analysis_type, original, results, fileVars, wear_num,
                   actual_measurements, tooth1_result, all_teeth_result, batchVars,
                   segVars, healthy_tooth1, worn_teeth, best_match, target_um_per_px, driverVars>>

NextMatch == AnalyzeWornImage \/ ExtractFeatures

SpecMatch == InitMatch /\ [][NextMatch]_vars

-----------------------------------------------------------------------------
(* Specification of the batch runs: a folder of image files, processed one *)
(* image per step by analyze_all_teeth_wear_from_images (all_teeth) or by  *)
(* the loop of analyze_tooth1_wear_depth (tooth1).                         *)

\* Names a folder of gear images may hold.
GearImageNames ==
    {"Wear1.jpg", "w1.png", "W2.jpg", "gear.jpg", "Healthy.jpg", "w3wear2.png"}

\* Names the folder of worn-tooth photographs may hold.
WornImageNames ==
    {"W1 a.jpg", "W1 b.jpg", "W2 a.jpg", "W40 a.jpg", "Wear3.jpg"}

\* Directory listings: up to MaxFiles distinct names, in any order.
Listings(names) ==
    {l \in SeqsUpTo(names, MaxFiles) : \A i, j \in DOMAIN l : i # j => l[i] # l[j]}

\* Teeth the segmentation of one image may return (indices 1..n).
SegmentedCounts == {0, 1, 2}

\* What the analysis of one tooth may do: raise, or resolve with a noise
\* factor (percent).
ToothOutcomes == {0, 95, 105}

ToothRecord(case, tooth, outcome) ==
    IF outcome = 0 THEN ErrorRecord(case, tooth)
    ELSE AllTeethResolve(case, tooth, outcome)

\* analyze_single_gear_image: [] when the image does not load or no tooth is
\* found, else one record per extracted tooth, in tooth order.
\* Mutant: an image without teeth yields a placeholder record.
ImageResultsWithPlaceholder(case, n) ==
    IF n = 0 THEN {<<ErrorRecord(case, 0)>>}
    ELSE {[t \in 1..n |-> ToothRecord(case, t, o[t])] : o \in [1..n -> ToothOutcomes]}

\* The results of analyze_single_gear_image on an image with n extracted
\* teeth.
ImageResultsFor(case, n) ==
    {[t \in 1..n |-> ToothRecord(case, t, o[t])] : o \in [1..n -> ToothOutcomes]}

ImageResults(case) == UNION {ImageResultsFor(case, n) : n \in SegmentedCounts}

\* The entry of one loop iteration.
Iteration(file, wear_case, teeth, added) ==
    [file |-> file, wear_case |-> wear_case, teeth |-> teeth, added |-> added]

InitBatch ==
    /\ pc = "batch"
    /\ \/ /\ analysis_type = "all_teeth"
          /\ \E listing \in Listings(GearImageNames) :
                image_files = AllTeethImageFiles(listing)
          /\ actual_measurements = <<>>
       \/ /\ analysis_type = "tooth1"
          /\ \E listing \in Listings(WornImageNames) :
                image_files = GlobWorn(listing)
          /\ \E csv_exists \in BOOLEAN :
                actual_measurements = load_ground_truth_data(csv_exists)
    /\ file_index = 0
    /\ processed = <<>>
    /\ original = <<>>
    /\ results = <<>>
    /\ wear_num = 0
    /\ features = 0
    /\ tooth1_result = <<>>
    /\ all_teeth_result = <<>>
    /\ IdleFile
    /\ IdleSeg
    /\ IdleMatch
    /\ IdleDriver

BatchFrame == UNCHANGED <<analysis_type, original, fileVars, wear_num,
                          actual_measurements, features, tooth1_result,
                          all_teeth_result, segVars, matchVars, driverVars>>

\* The entry of analyze_tooth1_wear_depth: wear_files.sort(key=
\* extract_wear_number), where a name without an integer after its first
\* letter raises ValueError and ends the run; then the healthy reference,
\* without which (file missing, unreadable, or no tooth found in it) the
\* run returns [].
StartTooth1 ==
    /\ pc = "batch"
    /\ analysis_type = "tooth1"
    /\ IF WornFilesSortable(image_files)
       THEN /\ image_files' = Tooth1WearFiles(image_files)
            /\ \E healthy_teeth_found \in BOOLEAN :
                  pc' = IF healthy_teeth_found THEN "loop" ELSE "done"
       ELSE /\ pc' = "aborted"
            /\ UNCHANGED image_files
    /\ UNCHANGED <<results, file_index, processed>>
    /\ BatchFrame

\* The listing of analyze_all_teeth_wear_from_images is sorted on entry.
StartAllTeeth ==
    /\ pc = "batch"
    /\ analysis_type = "all_teeth"
    /\ pc' = IF image_files = <<>> THEN "done" ELSE "loop"
    /\ UNCHANGED <<results, image_files, file_index, processed>>
    /\ BatchFrame

\* One iteration of the loop of analyze_all_teeth_wear_from_images on a
\* file recognised as the healthy case.
SkipHealthy ==
    /\ pc = "loop"
    /\ analysis_type = "all_teeth"
    /\ file_index < Len(image_files)
    /\ extract_wear_case_from_filename(image_files[file_index + 1], file_index + 1) = 0 - 1
    /\ file_index' = file_index + 1
    /\ processed' = Append(processed, Iteration(image_files[file_index + 1], 0 - 1, 0, 0))
    /\ UNCHANGED <<pc, results, image_files>>
    /\ BatchFrame

\* One iteration of the loop of analyze_all_teeth_wear_from_images on any
\* other file.
AnalyzeImage ==
    /\ pc = "loop"
    /\ analysis_type = "all_teeth"
    /\ file_index < Len(image_files)
    /\ LET wear_case == extract_wear_case_from_filename(image_files[file_index + 1],
                                                       file_index + 1)
       IN /\ wear_case # 0 - 1
          /\ \E n \in SegmentedCounts :
                \E recs \in ImageResultsFor(wear_case, n) :
                   /\ results' = results \o recs
                   /\ processed' = Append(processed,
                                          Iteration(image_files[file_index + 1], wear_case,
                                                    n, Len(results') - Len(results)))
    /\ file_index' = file_index + 1
    /\ UNCHANGED <<pc, image_files>>
    /\ BatchFrame

\* One iteration of the loop of analyze_tooth1_wear_depth that appends
\* nothing: the image does not load, no tooth is found in it, or no worn
\* tooth matches the healthy one.
SkipWorn ==
    /\ pc = "loop"
    /\ analysis_type = "tooth1"
    /\ file_index < Len(image_files)
    /\ file_index' = file_index + 1
    /\ \E teeth \in {0, 1} :
          processed' = Append(processed,
                              Iteration(image_files[file_index + 1],
                                        extract_wear_number(image_files[file_index + 1]).val,
                                        teeth, 0))
    /\ UNCHANGED <<pc, results, image_files>>
    /\ BatchFrame

\* One iteration of the loop of analyze_tooth1_wear_depth with a match.
AnalyzeWorn ==
    /\ pc = "loop"
    /\ analysis_type = "tooth1"
    /\ file_index < Len(image_files)
    /\ \E area_loss \in AreaLossValues :
          results' = Append(results,
                            Tooth1Resolve(extract_wear_number(image_files[file_index + 1]).val,
                                          area_loss, actual_measurements))
    /\ file_index' = file_index + 1
    /\ processed' = Append(processed,
                           Iteration(image_files[file_index + 1],
                                     extract_wear_number(image_files[file_index + 1]).val,
                                     1, 1))
    /\ UNCHANGED <<pc, image_files>>
    /\ BatchFrame

\* One iteration of the loop of analyze_tooth1_wear_depth in which the
\* analysis of the tooth (matching, feature extraction) raises: the loop has
\* no try block, the exception leaves the function.
RaiseWorn ==
    /\ pc = "loop"
    /\ analysis_type = "tooth1"
    /\ file_index < Len(image_files)
    /\ pc' = "aborted"
    /\ UNCHANGED <<results, image_files, file_index, processed>>
    /\ BatchFrame

\* The loop has gone through every file: the Result Set is returned.
FinishBatch ==
    /\ pc = "loop"
    /\ file_index = Len(image_files)
    /\ pc' = "done"
    /\ UNCHANGED <<results, image_files, file_index, processed>>
    /\ BatchFrame

NextBatch ==
    \/ StartTooth1
    \/ StartAllTeeth
    \/ SkipHealthy
    \/ AnalyzeImage
    \/ SkipWorn
    \/ AnalyzeWorn
    \/ RaiseWorn
    \/ FinishBatch

SpecBatch == InitBatch /\ [][NextBatch]_vars

-----------------------------------------------------------------------------
(* Specification of one call of extract_wear_case_from_filename *)

\* Names an image folder may hold.
FileNames ==
    {"Wear1.jpg", "Wear10.png", "w1.png", "W2.jpg", "gear.jpg", "w.jpg",
     "Healthy.jpg", "Healthy2.jpg", "HEALTHY_W3.PNG", "w3wear2.png",
     "3w5.jpg", "gear7.jpg", "7 wear.jpg", "wear w4.jpg", "swear12.jpg",
     "x9wear.jpg", "img_12_w3.jpg", "12.jpg"}

\* The loop is at position file_index of its listing; the call is about to
\* be made on the file there.
InitFilename ==
    /\ pc = "filename"
    /\ analysis_type = "all_teeth"
    /\ \E name \in FileNames : image_files = <<name>>
    /\ file_index \in 0..MaxFiles
    /\ processed = <<>>
    /\ original = <<>>
    /\ results = <<>>
    /\ IdleFile
    /\ IdleResolve
    /\ IdleSeg
    /\ IdleMatch
    /\ IdleDriver

\* wear_case = extract_wear_case_from_filename(filename, i + 1)
ExtractWearCase ==
    /\ pc = "filename"
    /\ processed' = <<Iteration(image_files[1],
                                extract_wear_case_from_filename(image_files[1],
                                                                file_index + 1),
                                0, 0)>>
    /\ pc' = "extracted"
    /\ UNCHANGED <<dataVars, fileVars, resolveVars, image_files, file_index,
                   segVars, matchVars, driverVars>>

NextFilename == ExtractWearCase

SpecFilename == InitFilename /\ [][NextFilename]_vars

-----------------------------------------------------------------------------
(* Specification of the drivers: main() of Analyze_all_teeth.py and of       *)
(* Analyze_tooth1.py run the batch, then enforcement, then the table write   *)

\* `if all_teeth_results:` / `if tooth1_results:`: an empty list is falsy.
\* Mutant: the driver goes on whatever the batch returned.
DriverProceedsAlways(s) == TRUE

DriverProceeds(s) == s # <<>>

DriverFrame == UNCHANGED <<analysis_type, loaded, resolveVars, batchVars,
                           segVars, matchVars>>

\* The batch has returned a Result Set the driver goes on with: the
\* all-teeth driver calls enforce_monotonicity_for_all_teeth, the tooth-1
\* driver enforce_monotonicity(..., analysis_type="tooth1"), and rebinds its
\* list to what the call returns.  original keeps the list the batch
\* returned.
DriverEnforce ==
    /\ pc = "done"
    /\ DriverProceeds(results)
    /\ original' = results
    /\ results' = enforce_monotonicity(results, analysis_type)
    /\ enforce_runs' = enforce_runs + 1
    /\ pc' = "enforced"
    /\ UNCHANGED <<csv_file, save_calls>>
    /\ DriverFrame

\* save_results_to_csv on the enforced list.
DriverSave ==
    /\ pc = "enforced"
    /\ csv_file' = save_results_to_csv(results, analysis_type, csv_file)
    /\ save_calls' = save_calls + 1
    /\ pc' = "saved"
    /\ UNCHANGED <<original, results, enforce_runs>>
    /\ DriverFrame

\* The batch returned nothing: the body of the if is skipped and main()
\* prints its closing banner.
DriverSkip ==
    /\ pc = "done"
    /\ ~DriverProceeds(results)
    /\ pc' = "exit"
    /\ UNCHANGED <<original, results, csv_file, driverVars>>
    /\ DriverFrame

\* The rest of the if body only reads the list (statistics, precision).
DriverSummary ==
    /\ pc = "saved"
    /\ pc' = "exit"
    /\ UNCHANGED <<original, results, csv_file, driverVars>>
    /\ DriverFrame

NextDriver ==
    \/ NextBatch
    \/ DriverEnforce
    \/ DriverSave
    \/ DriverSkip
    \/ DriverSummary

SpecDriver == InitBatch /\ [][NextDriver]_vars

-----------------------------------------------------------------------------
(* Claims about monotonicity enforcement (checked under SpecMono) *)

Enforced(type) == pc = "enforced" /\ analysis_type = type

\* ra precedes rb in ascending wear-case order (records of one wear case in
\* the order the stable sort leaves them).
Precedes(s, i, j) ==
    \/ s[i].wear_case < s[j].wear_case
    \/ s[i].wear_case = s[j].wear_case /\ i < j

\* C1: after multi-tooth enforcement, for every tooth the depths of its
\* records taken in ascending wear-case order are non-decreasing.
C1_AllTeethNonDecreasing ==
    Enforced("all_teeth") =>
        \A i, j \in DOMAIN results :
            (results[i].tooth_number = results[j].tooth_number
             /\ Precedes(results, i, j))
            => results[i].wear_depth_um <= results[j].wear_depth_um

\* C1 witness: a tooth whose records were inserted out of wear-case order
\* with a decreasing depth has been repaired.
C1_Witness ==
    /\ Enforced("all_teeth")
    /\ \E i, j \in DOMAIN original :
          /\ i > j
          /\ original[i].tooth_number = original[j].tooth_number
          /\ original[i].wear_case < original[j].wear_case
          /\ original[i].wear_depth_um > original[j].wear_depth_um
          /\ results[j].wear_depth_um = original[i].wear_depth_um

IsAscending(s) ==
    \A i \in 2..Len(s) : s[i-1].wear_case <= s[i].wear_case

\* C2: the list returned by single-tooth enforcement is in ascending
\* wear-case order and every adjacent pair has depth[i] >= depth[i-1],
\* whatever the input depths.
C2_Tooth1NonDecreasing ==
    Enforced("tooth1") =>
        /\ IsAscending(results)
        /\ \A i \in 2..Len(results) :
              results[i].wear_depth_um >= results[i-1].wear_depth_um

\* The input of single-tooth enforcement in the order the output has.
SortedOriginal == SortByWearCase(original)

-----------------------------------------------------------------------------
(* Claims about the table round trip (checked under SpecTable) *)

\* C4: a multi-tooth Result Set written by save_table_format and reloaded by
\* load_all_teeth_data gives back the (tooth, wear case) -> depth mapping,
\* each depth within 0.05 um, also when a pair is absent or occurs twice.
C4_AllTeethRoundTrip ==
    (pc = "loaded" /\ analysis_type = "all_teeth") =>
        /\ \A i \in DOMAIN original :
              /\ original[i].wear_case \in DOMAIN loaded
              /\ original[i].tooth_number \in DOMAIN loaded[original[i].wear_case]
              /\ \E j \in DOMAIN original :
                    /\ original[j].wear_case = original[i].wear_case
                    /\ original[j].tooth_number = original[i].tooth_number
                    /\ Abs(loaded[original[i].wear_case][original[i].tooth_number]
                           - original[j].wear_depth_um) <= 5
        /\ \A c \in DOMAIN loaded : \A t \in DOMAIN loaded[c] :
              \E i \in DOMAIN original :
                  original[i].wear_case = c /\ original[i].tooth_number = t

\* C5: a non-empty single-tooth Result Set, also one of a single wear case,
\* written by save_table_format and reloaded by load_single_tooth_data gives
\* back the wear case -> depth mapping to one-decimal rounding.
C5_Tooth1RoundTrip ==
    (pc = "loaded" /\ analysis_type = "tooth1" /\ original # <<>>) =>
        /\ \A i \in DOMAIN original :
              /\ original[i].wear_case \in DOMAIN loaded
              /\ \E j \in DOMAIN original :
                    /\ original[j].wear_case = original[i].wear_case
                    /\ loaded[original[i].wear_case] = Round1(original[j].wear_depth_um) * 10
        /\ \A c \in DOMAIN loaded :
              \E i \in DOMAIN original : original[i].wear_case = c

-----------------------------------------------------------------------------
(* Claims about Wear-Depth Resolution (checked under SpecResolve) *)

Resolved1 == tooth1_result # <<>>
ResolvedAll == all_teeth_result # <<>>

\* C6: the single-tooth resolution takes the manual override if the wear
\* case has one, else the optimized result, else the ground-truth
\* measurement, else area_loss * 1000, and tags the record accordingly; wear
\* case 1 gives (38.0, "manual_adjustment") whatever the features.
C6_Precedence ==
    Resolved1 =>
        LET r == tooth1_result[1]
        IN /\ r.wear_case = wear_num
           /\ IF wear_num \in {1, 2, 4, 5, 6}
              THEN r.method = "manual_adjustment"
                   /\ r.wear_depth_um = manual_adjustments[wear_num]
              ELSE IF wear_num \in 7..35
              THEN r.method = "optimized"
                   /\ r.wear_depth_um = optimized_results_w7_plus[wear_num]
              ELSE IF wear_num \in DOMAIN actual_measurements
              THEN r.method = "actual_measurement"
                   /\ r.wear_depth_um = actual_measurements[wear_num]
              ELSE r.method = "feature_based"
                   /\ r.wear_depth_um =
                        (IF features < 0 THEN 0
                         ELSE IF features * 100 > MAX_THEORETICAL_WEAR
                         THEN MAX_THEORETICAL_WEAR ELSE features * 100)
           /\ (wear_num = 1 => r.wear_depth_um = 3800 /\ r.method = "manual_adjustment")

\* C6 witness: wear case 1 has been resolved under an area_loss of 9.0
\* (9000 um from the features) and came out as the override.
C6_Witness ==
    /\ Resolved1
    /\ wear_num = 1
    /\ features = 9000
    /\ tooth1_result[1].wear_depth_um = 3800
    /\ tooth1_result[1].method = "manual_adjustment"

\* C7: every depth Wear-Depth Resolution produces, in either pipeline, lies
\* in [0, MAX_THEORETICAL_WEAR].
C7_DepthInRange ==
    /\ Resolved1 =>
          /\ tooth1_result[1].wear_depth_um >= 0
          /\ tooth1_result[1].wear_depth_um <= MAX_THEORETICAL_WEAR
    /\ ResolvedAll =>
          /\ all_teeth_result[1].wear_depth_um >= 0
          /\ all_teeth_result[1].wear_depth_um <= MAX_THEORETICAL_WEAR

\* C7 witness: both pipelines resolved a depth at the cap, the single-tooth
\* one from a feature-derived value above it and the multi-tooth one from
\* the fallback formula.
C7_Witness ==
    /\ Resolved1 /\ ResolvedAll
    /\ features * 100 > MAX_THEORETICAL_WEAR
    /\ tooth1_result[1].method = "feature_based"
    /\ tooth1_result[1].wear_depth_um = MAX_THEORETICAL_WEAR
    /\ all_teeth_result[1].method = "single_image_analysis"
    /\ all_teeth_result[1].tooth_number > 1
    /\ all_teeth_result[1].wear_depth_um = MAX_THEORETICAL_WEAR

\* C8: for every wear case the depth the multi-tooth pipeline resolves for
\* tooth 1 is the depth the single-tooth pipeline resolves, also for wear
\* cases outside 1..35.
C8_CrossPipeline ==
    (Resolved1 /\ ResolvedAll
     /\ all_teeth_result[1].tooth_number = 1
     /\ all_teeth_result[1].method = "single_image_analysis")
    => all_teeth_result[1].wear_depth_um = tooth1_result[1].wear_depth_um

-----------------------------------------------------------------------------
(* Claims about the batch runs (checked under SpecBatch) *)

\* C9: the Result Set of a batch run holds at most one record per key,
\* (wear_case, tooth_number) in the multi-tooth run and wear_case in the
\* single-tooth run, whatever the filenames.
C9_OneRecordPerKey ==
    pc = "done" =>
        \A i, j \in DOMAIN results :
            i # j =>
                IF analysis_type = "all_teeth"
                THEN ~(results[i].wear_case = results[j].wear_case
                       /\ results[i].tooth_number = results[j].tooth_number)
                ELSE results[i].wear_case # results[j].wear_case

-----------------------------------------------------------------------------
(* Claims about Tooth Segmentation (checked under SpecSeg) *)

\* The angle of the tooth at index i of the returned sequence.
AngleOfTooth(i) == valid_contours[indexed_teeth[i].contour].angle

\* C10: a non-empty segmentation result from c filtered candidates carries
\* the tooth indices 1..k, k = min(c, EXPECTED_TOOTH_COUNT), each once, and
\* the angles of its teeth never decrease as the index increases, under both
\* reduction policies.
C10_IndicesAndAngles ==
    (pc = "segmented" /\ indexed_teeth # <<>>) =>
        /\ Len(indexed_teeth) = Min2(Len(valid_contours), EXPECTED_TOOTH_COUNT)
        /\ \A i \in DOMAIN indexed_teeth : indexed_teeth[i].tooth_number = i
        /\ \A i \in DOMAIN indexed_teeth :
              i > 1 => AngleOfTooth(i - 1) <= AngleOfTooth(i)

\* More candidates than expected, detected out of angular order, reduced to
\* the expected count with at least one candidate left out.
C10_Witness ==
    /\ pc = "segmented"
    /\ Len(valid_contours) > EXPECTED_TOOTH_COUNT
    /\ Len(indexed_teeth) = EXPECTED_TOOTH_COUNT
    /\ \E j \in 2..Len(valid_contours) :
          valid_contours[j].angle < valid_contours[j - 1].angle
    /\ \E j \in DOMAIN valid_contours :
          \A i \in DOMAIN indexed_teeth : indexed_teeth[i].contour # j

\* C11: under the closest-angle-to-ideal-slot policy (more candidates than
\* EXPECTED_TOOTH_COUNT) no candidate contour sits at two tooth indices of
\* the returned sequence.
C11_NoContourTwice ==
    (pc = "segmented" /\ analysis_type = "tooth1"
     /\ Len(valid_contours) > EXPECTED_TOOTH_COUNT) =>
        \A i, j \in DOMAIN indexed_teeth :
            i # j => indexed_teeth[i].contour # indexed_teeth[j].contour

-----------------------------------------------------------------------------
(* Claims about Tooth Matching (checked under SpecMatch) *)

AllBeyondDistance ==
    \A i \in DOMAIN worn_teeth :
        worn_teeth[i].contour.distance > max_distance_threshold

NonePassesAreaGate ==
    \A i \in DOMAIN worn_teeth : ~PassesAreaGate(worn_teeth[i].contour)

\* C12: when every candidate lies beyond maxDistance, or the candidate list
\* is empty, or no candidate passes the area gate, Tooth Matching returns
\* no match, and the caller appends no record and goes on to the next image.
C12_NoMatchNoRecord ==
    (pc # "worn_image" /\ pc # "features"
     /\ (worn_teeth = <<>> \/ AllBeyondDistance \/ NonePassesAreaGate)) =>
        /\ best_match = NoMatch
        /\ results = <<>>
        /\ pc = "next_image"

\* C12 witness: a non-empty candidate list, all of it beyond maxDistance,
\* has been gone through.
C12_Witness ==
    /\ pc = "next_image"
    /\ worn_teeth # <<>>
    /\ AllBeyondDistance
    /\ \E i \in DOMAIN worn_teeth : PassesAreaGate(worn_teeth[i].contour)
    /\ best_match = NoMatch
    /\ results = <<>>

\* Candidate i has the healthy tooth's area and zero centroid distance.
ExactAreaAt(i) ==
    /\ worn_teeth[i].contour.area = healthy_tooth1.area
    /\ worn_teeth[i].contour.distance = 0

\* Candidate i scores zero: it passes the area gate and has the healthy
\* tooth's area and perimeter and zero centroid distance.
ExactAt(i) ==
    /\ ExactAreaAt(i)
    /\ worn_teeth[i].contour.perimeter = healthy_tooth1.perimeter
    /\ PassesAreaGate(worn_teeth[i].contour)

\* C13: whenever a candidate has exactly the healthy tooth's area and zero
\* centroid distance, Tooth Matching returns such a candidate, whatever the
\* healthy area, the perimeters and the other candidates.
C13_Original ==
    (pc = "next_image" /\ healthy_tooth1.area \in 50..8000
     /\ \E i \in DOMAIN worn_teeth : ExactAreaAt(i)) =>
        /\ best_match # NoMatch
        /\ ExactAreaAt(best_match[1].idx)

\* C13 amended: whenever a candidate inside the area gate has exactly the
\* healthy tooth's area and perimeter and zero centroid distance, Tooth
\* Matching returns the first such candidate.
C13_Amended ==
    (pc = "next_image" /\ \E i \in DOMAIN worn_teeth : ExactAt(i)) =>
        /\ best_match # NoMatch
        /\ ExactAt(best_match[1].idx)
        /\ \A i \in DOMAIN worn_teeth : ExactAt(i) => best_match[1].idx <= i

\* C13 witness: the exact candidate came second, behind a noisier one, and
\* was the one returned.
C13_Witness ==
    /\ pc = "next_image"
    /\ Len(worn_teeth) = 2
    /\ ~ExactAreaAt(1)
    /\ PassesAreaGate(worn_teeth[1].contour)
    /\ PassesDistanceGate(worn_teeth[1].contour)
    /\ ExactAt(2)
    /\ best_match = <<worn_teeth[2]>>

-----------------------------------------------------------------------------
(* Claims about the batch loops (checked under SpecBatch) *)

IsHealthyName(name) == Contains(Lower(name), "healthy")

\* The files of the folder without the healthy ones, in processing order.
WithoutHealthy(files) ==
    LET Worn(name) == ~IsHealthyName(name)
    IN SelectSeq(files, Worn)

\* The position of files[k] among the files that are not healthy.
PositionWithoutHealthy(files, k) == Len(WithoutHealthy(SubSeq(files, 1, k)))

\* C14: in the multi-tooth batch a file named "healthy" (any letter case)
\* produces no record, and every other file gets the wear-case number it
\* would get if the healthy file were not in the folder.
C14_HealthyExcluded ==
    analysis_type = "all_teeth" =>
        \A k \in DOMAIN processed :
            IF IsHealthyName(processed[k].file)
            THEN processed[k].added = 0
            ELSE processed[k].wear_case =
                    extract_wear_case_from_filename(
                        processed[k].file, PositionWithoutHealthy(image_files, k))

\* C15: an image in which segmentation finds no tooth adds no record, no
\* image is gone through twice, the run does not stop there, and it ends
\* only after every image.
C15_EmptyImageSkipped ==
    analysis_type = "all_teeth" =>
        /\ pc # "aborted"
        /\ Len(processed) = file_index
        /\ \A k \in DOMAIN processed :
              /\ processed[k].file = image_files[k]
              /\ processed[k].teeth = 0 => processed[k].added = 0
        /\ pc = "done" => file_index = Len(image_files)

\* C15 witness: the run is over, an image without teeth was followed by an
\* image that gave records.
C15_Witness ==
    /\ analysis_type = "all_teeth"
    /\ pc = "done"
    /\ \E k \in DOMAIN processed :
          /\ processed[k].wear_case # 0 - 1
          /\ processed[k].teeth = 0
          /\ k < Len(processed)
          /\ processed[k + 1].added > 0

\* C16: in either pipeline an exception raised while one tooth is analysed
\* is caught for that tooth, leaves a record of depth 0.0 tagged as an
\* error, and the rest of the batch is still gone through: no run ends
\* before its last image.
C16_ErrorPerTooth ==
    /\ pc # "aborted" \/ ~WornFilesSortable(image_files)
    /\ \A i \in DOMAIN results :
          results[i].method = "error" => results[i].wear_depth_um = 0

-----------------------------------------------------------------------------
(* Claims about the method tag under enforcement (checked under SpecMono) *)

\* The record of the input that results[i] was made from.
OriginalOf(i) ==
    IF analysis_type = "all_teeth" THEN original[i] ELSE SortedOriginal[i]

\* tag is old with a non-empty suffix appended.
IsSuffixed(tag, old) ==
    /\ Len(tag) > Len(old)
    /\ SubSeq(tag, 1, Len(old)) = old

\* C17: a record whose depth enforcement changed (either pipeline) carries
\* its old method tag extended by a suffix; a record whose depth was not
\* changed carries its old method tag.
C17_TagRecordsAdjustment ==
    pc = "enforced" =>
        \A i \in DOMAIN results :
            IF results[i].wear_depth_um # OriginalOf(i).wear_depth_um
            THEN IsSuffixed(results[i].method, OriginalOf(i).method)
            ELSE results[i].method = OriginalOf(i).method

-----------------------------------------------------------------------------
(* Claims about the shape of the table (checked under SpecTable) *)

TableWritten(type) ==
    /\ pc \in {"saved", "loaded"}
    /\ analysis_type = type
    /\ csv_file.exists

TeethOf(s) == {s[i].tooth_number : i \in DOMAIN s}
CasesOf(s) == {s[i].wear_case : i \in DOMAIN s}

\* The place of x in the ascending order of S.
RankIn(S, x) == Cardinality({y \in S : y < x}) + 1

\* The text is the depth rounded to one decimal.
IsRoundedDepth(text, depth) ==
    /\ ParseFloat(text).ok
    /\ ParseFloat(text).val % 10 = 0
    /\ Abs(ParseFloat(text).val - depth) <= 5

\* C18: the table written for a multi-tooth Result Set has a first column
\* Tooth, then one column W<n> per distinct wear case in ascending order,
\* one row per distinct tooth in ascending order, and at (tooth, W<n>) the
\* depth of that record rounded to one decimal.
C18_AllTeethTableShape ==
    TableWritten("all_teeth") =>
        /\ Len(csv_file.header) = 1 + Cardinality(CasesOf(results))
        /\ csv_file.header[1] = "Tooth"
        /\ \A c \in CasesOf(results) :
              csv_file.header[1 + RankIn(CasesOf(results), c)] = "W" \o ToString(c)
        /\ Len(csv_file.rows) = Cardinality(TeethOf(results))
        /\ \A t \in TeethOf(results) :
              csv_file.rows[RankIn(TeethOf(results), t)][1] = ToString(t)
        /\ \A i \in DOMAIN results :
              IsRoundedDepth(
                  csv_file.rows[RankIn(TeethOf(results), results[i].tooth_number)]
                               [1 + RankIn(CasesOf(results), results[i].wear_case)],
                  results[i].wear_depth_um)

\* C18 witness: a table of two teeth and two wear cases, the records having
\* been inserted with the higher tooth and the higher wear case first.
C18_Witness ==
    /\ TableWritten("all_teeth")
    /\ Len(csv_file.rows) = 2
    /\ Len(csv_file.header) = 3
    /\ results[1].tooth_number = 2
    /\ results[1].wear_case = 2
    /\ csv_file.header = <<"Tooth", "W1", "W2">>
    /\ csv_file.rows[1][1] = "1"

\* C19: the table written for a non-empty single-tooth Result Set has one
\* data row and one column per wear case, no wear case in two columns, in
\* ascending order, each cell holding the depth of the record of its wear
\* case.
C19_Tooth1TableShape ==
    (pc \in {"saved", "loaded"} /\ analysis_type = "tooth1" /\ results # <<>>) =>
        /\ csv_file.exists
        /\ Len(csv_file.rows) = 1
        /\ Len(csv_file.header) = Cardinality(CasesOf(results))
        /\ \A c \in CasesOf(results) :
              csv_file.header[RankIn(CasesOf(results), c)] = "W" \o ToString(c)
        /\ \A i \in DOMAIN results :
              IsRoundedDepth(csv_file.rows[1][RankIn(CasesOf(results), results[i].wear_case)],
                             results[i].wear_depth_um)

-----------------------------------------------------------------------------
(* Claims about the scale factor (checked under SpecMatch) *)

FeaturesExtracted ==
    \/ pc = "features"
    \/ pc = "next_image" /\ best_match # NoMatch

\* C20: the scale factor multiplied into the loss and diff features lies in
\* [4.0, 10.0] um/pixel for every healthy contour area, 0 included, and
\* every target scale.
C20_ScaleInRange ==
    FeaturesExtracted =>
        /\ effective_scale_factor >= 400
        /\ effective_scale_factor <= 1000

-----------------------------------------------------------------------------
(* Claims about the order of the driver's steps (checked under SpecDriver) *)

\* The number of records the loop iterations have appended.
RECURSIVE TotalAdded(_)
TotalAdded(p) ==
    IF p = <<>> THEN 0 ELSE p[1].added + TotalAdded(Tail(p))

\* C21: in each driver every record is created before enforcement starts,
\* enforcement is applied exactly once to the complete Result Set, and the
\* table is written only after enforcement; when the Result Set is empty
\* neither enforcement nor a table write happens.
C21_DriverOrder ==
    /\ enforce_runs \in {0, 1}
    /\ save_calls \in {0, 1}
    /\ save_calls <= enforce_runs
    /\ enforce_runs = 1 =>
          /\ file_index = Len(image_files)
          /\ Len(original) = TotalAdded(processed)
          /\ Len(results) = Len(original)
    /\ csv_file.exists => save_calls = 1 /\ enforce_runs = 1
    /\ (pc = "exit" /\ results = <<>>) =>
          enforce_runs = 0 /\ save_calls = 0 /\ ~csv_file.exists
    /\ (pc = "exit" /\ results # <<>>) =>
          enforce_runs = 1 /\ save_calls = 1

\* C21 witness: a driver that has enforced and saved a Result Set gathered
\* from more than one image.
C21_Witness ==
    /\ pc = "exit"
    /\ Len(results) >= 2
    /\ Len(image_files) >= 2
    /\ enforce_runs = 1
    /\ save_calls = 1
    /\ csv_file.exists

-----------------------------------------------------------------------------
(* Further claims about multi-tooth enforcement (checked under SpecMono) *)

\* The original depths of the records of the tooth of record j that precede
\* it in ascending wear-case order.
DepthsBefore(s, j) ==
    {s[i].wear_depth_um : i \in {k \in DOMAIN s :
                                    /\ s[k].tooth_number = s[j].tooth_number
                                    /\ Precedes(s, k, j)}}

\* C22: multi-tooth enforcement is a flat clamp: the depth of every record
\* afterwards is the largest of 0, its own original depth and the original
\* depths of the records of its tooth that precede it in ascending
\* wear-case order (ties in insertion order); nothing is interpolated or
\* grown.
C22_FlatClamp ==
    Enforced("all_teeth") =>
        /\ Len(results) = Len(original)
        /\ \A j \in DOMAIN results :
              results[j].wear_depth_um =
                 SetMax({0, original[j].wear_depth_um} \cup DepthsBefore(original, j))

\* C22 witness: a record raised to the depth of a record two places before
\* it, past a lower one in between.
C22_Witness ==
    /\ Enforced("all_teeth")
    /\ \E i, k, j \in DOMAIN original :
          /\ original[i].tooth_number = original[j].tooth_number
          /\ original[k].tooth_number = original[j].tooth_number
          /\ Precedes(original, i, k)
          /\ Precedes(original, k, j)
          /\ original[i].wear_depth_um > original[k].wear_depth_um
          /\ original[k].wear_depth_um > original[j].wear_depth_um
          /\ results[j].wear_depth_um = original[i].wear_depth_um

\* The running maximum when the loop reaches record j of s.
RunningMax(s, j) == SetMax({0} \cup DepthsBefore(s, j))

\* C25: multi-tooth enforcement changes nothing but wear_depth_um: the
\* Result Set keeps its length and insertion order, every record keeps its
\* wear_case, tooth_number and method, and a record that is not below the
\* running maximum is left as it was.
C25_OnlyDepthChanges ==
    Enforced("all_teeth") =>
        /\ Len(results) = Len(original)
        /\ \A j \in DOMAIN results :
              /\ results[j] =
                    [original[j] EXCEPT !.wear_depth_um = results[j].wear_depth_um]
              /\ original[j].wear_depth_um >= RunningMax(original, j)
                    => results[j] = original[j]

\* C25 witness: of two records of one tooth the later one was overwritten
\* and the earlier one left alone.
C25_Witness ==
    /\ Enforced("all_teeth")
    /\ \E i, j \in DOMAIN original :
          /\ original[i].tooth_number = original[j].tooth_number
          /\ Precedes(original, i, j)
          /\ results[i] = original[i]
          /\ results[j].wear_depth_um > original[j].wear_depth_um
          /\ results[j].method = original[j].method

\* C26: after multi-tooth enforcement every depth is at least 0, whatever
\* the input, negative depths included.
C26_NonNegative ==
    Enforced("all_teeth") =>
        \A j \in DOMAIN results : results[j].wear_depth_um >= 0

\* C26 witness: the first record of a tooth came in with a negative depth
\* and holds 0.
C26_Witness ==
    /\ Enforced("all_teeth")
    /\ \E j \in DOMAIN original :
          /\ original[j].wear_depth_um < 0
          /\ DepthsBefore(original, j) = {}
          /\ results[j].wear_depth_um = 0

\* C27: multi-tooth enforcement is idempotent: applied to its own result it
\* returns that result.
C27_Idempotent ==
    Enforced("all_teeth") =>
        enforce_monotonicity_for_all_teeth(results) = results

\* C27 witness: a first application that changed the Result Set and a second
\* one that changes nothing.
C27_Witness ==
    /\ Enforced("all_teeth")
    /\ results # original
    /\ enforce_monotonicity_for_all_teeth(original) = results
    /\ enforce_monotonicity_for_all_teeth(results) = results

\* Every depth of s lies in [0, MAX_THEORETICAL_WEAR].
AllInRange(s) ==
    \A j \in DOMAIN s :
        s[j].wear_depth_um >= 0 /\ s[j].wear_depth_um <= MAX_THEORETICAL_WEAR

\* C30: enforcement never lowers a measurement: for a Result Set whose
\* depths all lie in [0, MAX_THEORETICAL_WEAR], the depth of every record
\* after multi-tooth or single-tooth enforcement is at least its depth
\* before (the single-tooth records taken in the sorted order the result
\* has).
C30_NeverLowers ==
    (pc = "enforced" /\ AllInRange(original)) =>
        /\ Len(results) = Len(original)
        /\ LET before == IF analysis_type = "tooth1"
                         THEN SortByWearCase(original) ELSE original
           IN \A j \in DOMAIN results :
                 /\ results[j].wear_case = before[j].wear_case
                 /\ results[j].wear_depth_um >= before[j].wear_depth_um

\* C30 witness: a single-tooth Result Set in range with a record raised
\* above its depth before.
C30_Witness ==
    /\ Enforced("tooth1")
    /\ AllInRange(original)
    /\ \E j \in DOMAIN results :
          results[j].wear_depth_um > SortByWearCase(original)[j].wear_depth_um

-----------------------------------------------------------------------------
(* Further claims about Tooth Matching (checked under SpecMatch) *)

\* Candidate i passes both gates: area in [20, 5000] and centroid distance
\* at most maxDistance.
Eligible(i) ==
    /\ worn_teeth[i].contour.area >= 20
    /\ worn_teeth[i].contour.area <= 5000
    /\ worn_teeth[i].contour.distance <= 300

ScoreOf(i) == MatchScore(healthy_tooth1, worn_teeth[i].contour)

\* C23: among the candidates passing both gates, Tooth Matching returns
\* one of minimal score, the earliest in candidate order when scores tie;
\* a candidate exactly at distance maxDistance is still eligible.
C23_MinimalScoreEarliest ==
    (pc = "next_image" /\ \E i \in DOMAIN worn_teeth : Eligible(i)) =>
        /\ best_match # NoMatch
        /\ \E k \in DOMAIN worn_teeth :
              /\ best_match[1] = worn_teeth[k]
              /\ best_match[1].idx = k
              /\ Eligible(k)
              /\ \A i \in DOMAIN worn_teeth :
                    Eligible(i) =>
                       /\ ScoreOf(k) <= ScoreOf(i)
                       /\ ScoreOf(k) = ScoreOf(i) => k <= i

\* C23 witness: two candidates of equal score, the first of them exactly at
\* maxDistance, and the first was returned.
C23_Witness ==
    /\ pc = "next_image"
    /\ Len(worn_teeth) = 2
    /\ Eligible(1)
    /\ Eligible(2)
    /\ worn_teeth[1].contour.distance = max_distance_threshold
    /\ ScoreOf(1) = ScoreOf(2)
    /\ best_match = <<worn_teeth[1]>>

-----------------------------------------------------------------------------
(* Claims about the wear case of a file name (checked under SpecFilename) *)

\* The number written by the run of digits of name that starts at i.
RECURSIVE NumberFrom(_, _, _)
NumberFrom(name, i, acc) ==
    IF i <= Len(name) /\ IsDigit(CharAt(name, i))
    THEN NumberFrom(name, i + 1, acc * 10 + DigitVal(CharAt(name, i)))
    ELSE acc

\* Positions of name just behind an occurrence of word that a digit follows.
DigitsBehind(name, word) ==
    {i \in 1..Len(name) :
        /\ IsDigit(CharAt(name, i))
        /\ i > Len(word)
        /\ (word = "" \/ SubSeq(name, i - Len(word), i - 1) = word)}

\* The wear case the fixed order of decisions gives a lower-cased name.
DecidedCase(name, default_case) ==
    IF \E i \in 1..(Len(name) - 6) : SubSeq(name, i, i + 6) = "healthy" THEN 0 - 1
    ELSE IF DigitsBehind(name, "wear") # {}
         THEN NumberFrom(name, SetMin(DigitsBehind(name, "wear")), 0)
    ELSE IF DigitsBehind(name, "w") # {}
         THEN NumberFrom(name, SetMin(DigitsBehind(name, "w")), 0)
    ELSE IF DigitsBehind(name, "") # {}
         THEN NumberFrom(name, SetMin(DigitsBehind(name, "")), 0)
    ELSE default_case

\* C24: extract_wear_case_from_filename decides in a fixed order: a name
\* containing "healthy" in any case gives -1 even if it holds a number;
\* otherwise the number behind the first "wear" that digits follow;
\* otherwise the number behind the first "w" that digits follow; otherwise
\* the first run of digits; otherwise the caller's default.  The order of
\* the patterns, not the position in the name, decides.
C24_FixedOrder ==
    pc = "extracted" =>
        /\ processed[1].wear_case = DecidedCase(Lower(image_files[1]), file_index + 1)
        /\ image_files[1] = "Healthy2.jpg" => processed[1].wear_case = 0 - 1
        /\ image_files[1] = "HEALTHY_W3.PNG" => processed[1].wear_case = 0 - 1
        /\ image_files[1] = "w3wear2.png" => processed[1].wear_case = 2
        /\ image_files[1] = "img_12_w3.jpg" => processed[1].wear_case = 3
        /\ image_files[1] = "3w5.jpg" => processed[1].wear_case = 5
        /\ image_files[1] = "x9wear.jpg" => processed[1].wear_case = 9
        /\ image_files[1] = "w.jpg" => processed[1].wear_case = file_index + 1

\* C24 witness: in a name where w3 stands before wear2 the number behind
\* wear was returned.
C24_Witness ==
    /\ pc = "extracted"
    /\ image_files = <<"w3wear2.png">>
    /\ processed[1].wear_case = 2

-----------------------------------------------------------------------------
(* Claims about the pipelines end to end (checked under SpecDriver) *)

\* The tooth-1 driver has run enforcement on what its batch returned.
Tooth1PipelineDone ==
    /\ analysis_type = "tooth1"
    /\ pc \in {"enforced", "saved", "exit"}
    /\ enforce_runs = 1

\* C28: end to end in the single-tooth pipeline (resolution with its clamp,
\* then single-tooth enforcement) the final Result Set is in ascending
\* wear-case order, its depths are non-decreasing in that order and every
\* depth lies in [0, MAX_THEORETICAL_WEAR], whatever the wear cases and the
\* resolved values.
C28_Tooth1EndToEnd ==
    Tooth1PipelineDone =>
        /\ \A i, j \in DOMAIN results :
              i < j => /\ results[i].wear_case <= results[j].wear_case
                       /\ results[i].wear_depth_um <= results[j].wear_depth_um
        /\ \A i \in DOMAIN results :
              /\ results[i].wear_depth_um >= 0
              /\ results[i].wear_depth_um <= MAX_THEORETICAL_WEAR

\* C28 witness: the batch resolved a later wear case to a smaller depth
\* than an earlier one, and enforcement raised it.
C28_Witness ==
    /\ Tooth1PipelineDone
    /\ pc = "exit"
    /\ \E i \in DOMAIN original : \E j \in DOMAIN original :
          /\ i < j
          /\ original[i].wear_case < original[j].wear_case
          /\ original[i].wear_depth_um > original[j].wear_depth_um
          /\ results[j].wear_depth_um > original[j].wear_depth_um

\* The all-teeth driver has written its table.
AllTeethTablePersisted ==
    /\ analysis_type = "all_teeth"
    /\ pc \in {"saved", "exit"}
    /\ save_calls = 1
    /\ csv_file.exists

\* C29: in every all-teeth table the driver persists, each tooth row is
\* non-decreasing from left to right across the ascending wear-case
\* columns, empty cells ignored.
C29_TableRowsNonDecreasing ==
    AllTeethTablePersisted =>
        \A r \in DOMAIN csv_file.rows :
            \A a, b \in 2..Len(csv_file.header) :
                (a < b /\ csv_file.rows[r][a] # "" /\ csv_file.rows[r][b] # "") =>
                    /\ ParseFloat(csv_file.rows[r][a]).ok
                    /\ ParseFloat(csv_file.rows[r][b]).ok
                    /\ ParseFloat(csv_file.rows[r][a]).val
                          <= ParseFloat(csv_file.rows[r][b]).val

\* C29 witness: a tooth analysed to a smaller depth in the later of two
\* wear cases, and a table whose row for it holds two depths.
C29_Witness ==
    /\ AllTeethTablePersisted
    /\ \E i, j \in DOMAIN original :
          /\ original[i].tooth_number = original[j].tooth_number
          /\ original[i].wear_case < original[j].wear_case
          /\ original[i].wear_depth_um > original[j].wear_depth_um
          /\ results[j].wear_depth_um = original[i].wear_depth_um
    /\ \E r \in DOMAIN csv_file.rows :
          \E a, b \in 2..Len(csv_file.header) :
              a < b /\ csv_file.rows[r][a] # "" /\ csv_file.rows[r][b] # ""

=============================================================================
